---- MODULE Spec2Model ----
(***************************************************************************)
(* A model of the green-fashion wardrobe application: the item store       *)
(* (MongoDBManager and the legacy WardrobeManager), the blob store         *)
(* adapter (GCSService), the account stores (the Mongo users collection    *)
(* and the SQL account table) and the API / Streamlit handlers that        *)
(* compose them.  Every external call (a driver call, a bucket call) is    *)
(* one step, so handlers of different processes interleave between calls.  *)
(***************************************************************************)
EXTENDS Integers, Sequences, FiniteSets, TLC

VARIABLES
    items,      \* the clothing_items collection: a set of documents
    blobs,      \* the keys of the blobs that exist in the bucket
    files,      \* the paths of the image files of the legacy local store
    users,      \* the Mongo users collection: a set of documents
    account,    \* the SQL account table: a set of rows
    nextOid,    \* the number of ObjectIds generated so far
    nextUuid,   \* the number of uuids generated so far
    now,        \* the wall clock
    req,        \* req[r]: the multi-call handler run in slot r, its position and locals
    ret,        \* the answer of the last single-call operation
    model,      \* the classifier process: what get_cached_model() has cached
    loads,      \* the classifier process: how often the loader's body has run
    served,     \* the classifier process: its classify requests and their answers, in order
    db_manager, \* the API process: its global _db_manager
    gcs_service,\* the storage module: its global _gcs_service
    buckets     \* the blobs written through the storage module's service: <<bucket, key>>

vars == <<items, blobs, files, users, account, nextOid, nextUuid, now, req, ret,
          model, loads, served, db_manager, gcs_service, buckets>>

(***************************************************************************)
(* Bounds of the model.                                                    *)
(***************************************************************************)
OidLen == 2        \* hex digits of an ObjectId string (24 in bson)
MaxOids == 2       \* ObjectIds generated in one behaviour
MaxUuids == 1      \* uuids generated in one behaviour
NReq == 2          \* handler runs that can be in flight together
MaxTime == 1       \* the clock runs 0..MaxTime
MaxPixels == 3     \* pixels of an image after the resize
MaxCategories == 3 \* categories the classifier ranks (11 in the list)
MaxRuns == 3       \* classify requests served in one behaviour
MaxItems == 3      \* items of the wardrobe an outfit is generated from

Req == 1..NReq

\* the sum of the values of a function
RECURSIVE SumOf(_)
SumOf(f) ==
    IF DOMAIN f = {} THEN 0
    ELSE LET c == CHOOSE x \in DOMAIN f : TRUE
         IN  f[c] + SumOf([x \in DOMAIN f \ {c} |-> f[x]])

(***************************************************************************)
(* Python values.  None is a one-element sequence so that it compares      *)
(* with the strings (sequences of characters) it stands in for; NoDoc is   *)
(* the None of an Optional[Dict] and of a global that holds no object.     *)
(***************************************************************************)
None == <<"None">>
NoDoc == [none |-> TRUE]
Truthy(v) == v # None /\ v # <<>>

Get(d, f) == IF f \in DOMAIN d THEN d[f] ELSE None
Upd(d, f, v) == [x \in DOMAIN d \cup {f} |-> IF x = f THEN v ELSE d[x]]
Merge(d, u) == [x \in DOMAIN d \cup DOMAIN u |-> IF x \in DOMAIN u THEN u[x] ELSE d[x]]

(***************************************************************************)
(* Strings are sequences of characters.                                    *)
(***************************************************************************)
LowerChar(c) ==
    CASE c = "A" -> "a" [] c = "B" -> "b" [] c = "C" -> "c"
      [] c = "D" -> "d" [] c = "E" -> "e" [] c = "F" -> "f"
      [] c = "H" -> "h" [] c = "J" -> "j" [] c = "P" -> "p"
      [] c = "G" -> "g" [] OTHER -> c
Lower(s) == [i \in 1..Len(s) |-> LowerChar(s[i])]
Replace(s, a, b) == [i \in 1..Len(s) |-> IF s[i] = a THEN b ELSE s[i]]
EndsWith(s, suf) ==
    /\ Len(s) >= Len(suf)
    /\ SubSeq(s, Len(s) - Len(suf) + 1, Len(s)) = suf
\* re.search(q, s, IGNORECASE) for a pattern q of plain characters
RegexI(q, s) ==
    \E i \in 1..(Len(s) + 1) :
        /\ i + Len(q) - 1 <= Len(s)
        /\ Lower(SubSeq(s, i, i + Len(q) - 1)) = Lower(q)

(***************************************************************************)
(* bson.ObjectId: parsed from a string of OidLen hex digits of either      *)
(* case, held as the digits' values, rendered as lower-case hex.           *)
(***************************************************************************)
HexChars == <<"0", "1", "2", "3", "4", "5", "6", "7", "8", "9",
              "a", "b", "c", "d", "e", "f">>
IsHex(c) == \E n \in 1..16 : HexChars[n] = LowerChar(c)
HexVal(c) == (CHOOSE n \in 1..16 : HexChars[n] = LowerChar(c)) - 1
IsValidOid(s) == s # None /\ Len(s) = OidLen /\ \A i \in 1..Len(s) : IsHex(s[i])
ObjectId(s) == [i \in 1..Len(s) |-> HexVal(s[i])]
OidStr(o) == [i \in 1..Len(o) |-> HexChars[o[i] + 1]]
\* the n-th ObjectId the driver generates
NewOid(n) == [i \in 1..OidLen |-> n]
Rep(c) == [i \in 1..OidLen |-> c]

(***************************************************************************)
(* A collection is a set of documents (records); a query is a record of    *)
(* the field values a document must have.                                  *)
(***************************************************************************)
Matches(d, q) == \A f \in DOMAIN q : f \in DOMAIN d /\ d[f] = q[f]
Find(coll, q) == {d \in coll : Matches(d, q)}
\* item["_id"] = str(item["_id"]); item["user_id"] = str(item["user_id"])
Render(d) ==
    [x \in DOMAIN d |-> IF x \in {"_id", "user_id"} THEN OidStr(d[x]) ELSE d[x]]
\* query = {"_id": ObjectId(item_id)}; if user_id: query["user_id"] = ObjectId(user_id)
\* a variant that never adds the owner to the query
ScopeOn_Ignored(user_id) == FALSE
ScopeOn(user_id) == Truthy(user_id)
Scope(q, user_id) ==
    IF ScopeOn(user_id) THEN Upd(q, "user_id", ObjectId(user_id)) ELSE q
ScopeRaises(user_id) == Truthy(user_id) /\ ~IsValidOid(user_id)
ByIdRaises(item_id, user_id) == ~IsValidOid(item_id) \/ ScopeRaises(user_id)
ByIdQuery(item_id, user_id) == Scope([_id |-> ObjectId(item_id)], user_id)

(***************************************************************************)
(* MongoDBManager.  Each operator is one method; ok = FALSE is the driver  *)
(* call raising (no connection, a timeout), which the method catches.      *)
(***************************************************************************)
\* add_clothing_item: the document inserted, given the n-th ObjectId
AddRaises(item_data) ==
    "user_id" \in DOMAIN item_data /\ ~IsValidOid(item_data.user_id)
\* a variant that stamps created_at alone
Stamped_CreatedOnly(item_data, t) == Upd(item_data, "created_at", t)
Stamped(item_data, t) == Upd(Upd(item_data, "created_at", t), "updated_at", t)
Owned(d) ==
    IF "user_id" \in DOMAIN d THEN Upd(d, "user_id", ObjectId(d.user_id)) ELSE d
NewDoc(item_data, n, t) == Upd(Owned(Stamped(item_data, t)), "_id", NewOid(n))

GetAllItems(coll, user_id, ok) ==
    IF ~ok \/ ~IsValidOid(user_id) THEN {}
    ELSE {Render(d) : d \in Find(coll, [user_id |-> ObjectId(user_id)])}

GetItemById(coll, item_id, user_id, ok) ==
    IF ~ok \/ ByIdRaises(item_id, user_id) THEN NoDoc
    ELSE LET m == Find(coll, ByIdQuery(item_id, user_id))
         IN  IF m = {} THEN NoDoc ELSE Render(CHOOSE d \in m : TRUE)

\* update_item: the collection after update_one(query, {"$set": updates})
\* a variant that replaces the document by the update
SetFields_Replace(d, updates, t) == Upd(Upd(updates, "updated_at", t), "_id", d._id)
SetFields(d, updates, t) == Merge(d, Upd(updates, "updated_at", t))
UpdateTargets(coll, item_id, user_id, ok) ==
    IF ~ok \/ ByIdRaises(item_id, user_id) THEN {}
    ELSE Find(coll, ByIdQuery(item_id, user_id))
UpdateColl(coll, item_id, updates, user_id, t, ok) ==
    LET m == UpdateTargets(coll, item_id, user_id, ok)
    IN  (coll \ m) \cup {SetFields(d, updates, t) : d \in m}
\* result.modified_count > 0
UpdateResult(coll, item_id, updates, user_id, t, ok) ==
    \E d \in UpdateTargets(coll, item_id, user_id, ok) : SetFields(d, updates, t) # d

\* delete_item: the documents delete_one(query) removes
DeleteTargets_Uncaught(coll, item_id, user_id, ok) ==
    IF ByIdRaises(item_id, user_id) THEN {}
    ELSE Find(coll, ByIdQuery(item_id, user_id))
DeleteTargets(coll, item_id, user_id, ok) ==
    IF ~ok \/ ByIdRaises(item_id, user_id) THEN {}
    ELSE Find(coll, ByIdQuery(item_id, user_id))
DeleteColl(coll, item_id, user_id, ok) ==
    coll \ DeleteTargets(coll, item_id, user_id, ok)
\* result.deleted_count > 0
DeleteResult(coll, item_id, user_id, ok) ==
    DeleteTargets(coll, item_id, user_id, ok) # {}

\* the documents in scope of an optional owner filter
InScope(coll, user_id) ==
    IF ScopeOn(user_id) THEN Find(coll, [user_id |-> ObjectId(user_id)]) ELSE coll

\* {"$regex": query, "$options": "i"} matches string values only
RegexField(d, f, q) ==
    /\ f \in DOMAIN d
    /\ IF f = "category" THEN d[f][1] = "str" /\ RegexI(q, d[f][2])
       ELSE d[f] # None /\ RegexI(q, d[f])
SearchItems(coll, query, user_id, ok) ==
    IF ~ok \/ ScopeRaises(user_id) THEN {}
    ELSE {Render(d) : d \in {e \in InScope(coll, user_id) :
                \/ RegexField(e, "custom_name", query)
                \/ RegexField(e, "category", query)
                \/ RegexField(e, "display_name", query)}}

GetItemsByCategory(coll, category, user_id, ok) ==
    IF ~ok \/ ScopeRaises(user_id) THEN {}
    ELSE {Render(d) : d \in {e \in InScope(coll, user_id) :
                                Matches(e, [category |-> category])}}

GetCategories(coll, user_id, ok) ==
    IF ~ok \/ ScopeRaises(user_id) THEN {}
    ELSE {d.category : d \in {e \in InScope(coll, user_id) : "category" \in DOMAIN e}}

\* a variant that counts the whole collection
GetItemCount_All(coll, user_id, ok) == Cardinality(coll)
GetItemCount(coll, user_id, ok) ==
    IF ~ok \/ ScopeRaises(user_id) THEN 0
    ELSE Cardinality(InScope(coll, user_id))

\* {"$group": {"_id": "$category", "count": {"$sum": 1}}} as a dict
CatOf(d) == IF "category" \in DOMAIN d THEN d.category ELSE <<"null">>
GetCategoryCounts(coll, user_id, ok) ==
    IF ~ok \/ ScopeRaises(user_id) THEN <<>>
    ELSE LET m == InScope(coll, user_id)
         IN  [c \in {CatOf(d) : d \in m} |-> Cardinality({d \in m : CatOf(d) = c})]

(***************************************************************************)
(* GCSService: blob keys.                                                  *)
(***************************************************************************)
IMAGES_PATH == <<"images">>
WARDROBE_IMAGES_PATH == IMAGES_PATH \o <<"/", "wardrobe">>
DATASET_IMAGES_PATH == IMAGES_PATH \o <<"/", "dataset">>
JpgExt == <<".", "j", "p", "g">>
\* if not filename.lower().endswith(".jpg"): filename = f"{filename}.jpg"
SaveName_Always(filename) == filename \o JpgExt
SaveName(filename) ==
    IF EndsWith(Lower(filename), JpgExt) THEN filename ELSE filename \o JpgExt
\* blob_name = f"{storage_path}/{filename}"
BlobName(category, filename) ==
    (IF category = "dataset" THEN DATASET_IMAGES_PATH ELSE WARDROBE_IMAGES_PATH)
        \o <<"/">> \o SaveName(filename)

(***************************************************************************)
(* Handler slots.  A handler run that makes several external calls         *)
(* occupies the lowest free slot until it answers.                         *)
(***************************************************************************)
Idle == [op |-> "none", pc |-> "idle"]
IsFree(r) == req[r].pc = "idle"
Free(r) == IsFree(r) /\ \A s \in 1..(r - 1) : ~IsFree(s)
At(r, op, pc) == req[r].op = op /\ req[r].pc = pc
\* what a finished run leaves behind: the answer; the slot is free again
Answer(rec) == [op |-> rec.op, status |-> rec.status, blob |-> rec.blob]
Set(r, rec) ==
    IF rec.pc = "done"
    THEN req' = [req EXCEPT ![r] = Idle] /\ ret' = Answer(rec)
    ELSE req' = [req EXCEPT ![r] = rec] /\ ret' = ret
Return(rec) == ret' = rec /\ UNCHANGED req
\* a route without "except HTTPException: raise" turns every HTTPException
\* raised in its body into a 500
Wrap500(status) == IF status = 200 THEN 200 ELSE 500

Init ==
    /\ items = {}
    /\ blobs = {}
    /\ files = {}
    /\ users = {}
    /\ account = {}
    /\ nextOid = 0
    /\ nextUuid = 0
    /\ now = 0
    /\ req = [r \in Req |-> Idle]
    /\ ret = [op |-> "none"]
    /\ model = "unset"
    /\ loads = 0
    /\ served = <<>>
    /\ db_manager = NoDoc
    /\ gcs_service = NoDoc
    /\ buckets = {}

\* datetime.now() advances between calls
Tick ==
    /\ now < MaxTime
    /\ now' = now + 1
    /\ UNCHANGED <<items, blobs, files, users, account, nextOid, nextUuid, req, ret, model, loads, served, db_manager, gcs_service, buckets>>

(***************************************************************************)
(* Inputs.                                                                 *)
(***************************************************************************)
UserA == Rep("a")
UserB == Rep("b")
ApiUsers == {UserA, UserB}
ItemIdStrs == {OidStr(NewOid(n)) : n \in 1..MaxOids}
IntCat(n) == <<"int", n>>
StrCat(s) == <<"str", s>>
\* ClothingItem.dict() of the API
ApiItem(name, path) ==
    [custom_name |-> name, wardrobe_category |-> 1, category |-> IntCat(1),
     notes |-> <<>>, colors |-> <<>>, display_name |-> <<>>, path |-> path]

(***************************************************************************)
(* API: POST /v1/items                                                     *)
(***************************************************************************)
ApiCreateItem(uid, item, ok) ==
    LET item_data == Upd(item, "user_id", uid)
        fails == ~ok \/ AddRaises(item_data)
        doc == NewDoc(item_data, nextOid + 1, now)
    IN  /\ fails \/ nextOid < MaxOids
        /\ items' = IF fails THEN items ELSE items \cup {doc}
        /\ nextOid' = IF fails THEN nextOid ELSE nextOid + 1
        /\ Return([op |-> "create", status |-> IF fails THEN 500 ELSE 200,
                    id |-> IF fails THEN None ELSE OidStr(doc._id)])
        /\ UNCHANGED <<blobs, files, users, account, nextUuid, now, model, loads, served, db_manager, gcs_service, buckets>>

(***************************************************************************)
(* API: PUT /v1/items/{item_id}.  updates holds the non-null fields.       *)
(***************************************************************************)
ApiUpdateItem(uid, item_id, updates, ok) ==
    LET empty == DOMAIN updates = {}
        success == UpdateResult(items, item_id, updates, uid, now, ok)
        raised == IF empty THEN 400 ELSE IF success THEN 200 ELSE 404
    IN  /\ items' = IF empty THEN items
                    ELSE UpdateColl(items, item_id, updates, uid, now, ok)
        /\ Return([op |-> "update", raised |-> raised, status |-> Wrap500(raised)])
        /\ UNCHANGED <<blobs, files, users, account, nextOid, nextUuid, now, model, loads, served, db_manager, gcs_service, buckets>>

(***************************************************************************)
(* GCSService.delete_image(path), called by a handler at pc "blob_exists": *)
(* blob.exists(), then blob.delete().  Either bucket call may raise; the   *)
(* method re-raises as GoogleCloudError.  What the caller does with the    *)
(* error (log, warn, abort) leaves the stores as they are, so the run ends.*)
(***************************************************************************)
\* a variant without the inner try/except: the error reaches the route's
\* outer handler, which answers 500
BlobError_Propagates(rec) ==
    [rec EXCEPT !.pc = "done", !.blob = "raised",
                !.status = IF rec.op = "delete" THEN 500 ELSE @]
\* except Exception as e: logger.warning(...) in the API route, st.warning(...)
\* in the Streamlit delete; the add flow's cleanup lets the error end the script
BlobError(rec) == [rec EXCEPT !.pc = "done", !.blob = "raised"]

\* a variant that takes every blob as absent
BlobExists_Skip(r, ok) ==
    /\ req[r].pc = "blob_exists"
    /\ Set(r, [req[r] EXCEPT !.pc = "done", !.blob = "absent"])
    /\ UNCHANGED <<items, blobs, files, users, account, nextOid, nextUuid, now, model, loads, served, db_manager, gcs_service, buckets>>
BlobExists(r, ok) ==
    /\ req[r].pc = "blob_exists"
    /\ Set(r, IF ~ok THEN BlobError(req[r])
              ELSE IF req[r].path \notin blobs
                   THEN [req[r] EXCEPT !.pc = "done", !.blob = "absent"]
                   ELSE [req[r] EXCEPT !.pc = "blob_delete"])
    /\ UNCHANGED <<items, blobs, files, users, account, nextOid, nextUuid, now, model, loads, served, db_manager, gcs_service, buckets>>

\* blob.delete() raises NotFound when the blob is gone
BlobDeleteRaises(r, ok) == ~ok \/ req[r].path \notin blobs
\* a variant that reports the delete and leaves the blob
BlobsAfterDelete_Kept(r, ok) == blobs
BlobsAfterDelete(r, ok) ==
    IF BlobDeleteRaises(r, ok) THEN blobs ELSE blobs \ {req[r].path}
BlobDelete(r, ok) ==
    /\ req[r].pc = "blob_delete"
    /\ blobs' = BlobsAfterDelete(r, ok)
    /\ Set(r, IF BlobDeleteRaises(r, ok) THEN BlobError(req[r])
              ELSE [req[r] EXCEPT !.pc = "done", !.blob = "deleted"])
    /\ UNCHANGED <<items, files, users, account, nextOid, nextUuid, now, model, loads, served, db_manager, gcs_service, buckets>>

(***************************************************************************)
(* API: DELETE /v1/items/{item_id}                                         *)
(***************************************************************************)
\* item = db_manager.get_item_by_id(item_id, current_user_id)
ApiDeleteGet(r, uid, item_id, ok) ==
    LET item == GetItemById(items, item_id, uid, ok)
    IN  /\ Free(r)
        /\ Set(r, IF item = NoDoc
                  THEN [op |-> "delete", pc |-> "done", uid |-> uid,
                        item_id |-> item_id, status |-> 404, blob |-> "none",
                        path |-> None]
                  ELSE [op |-> "delete", pc |-> "db_delete", uid |-> uid,
                        item_id |-> item_id, status |-> 0, blob |-> "none",
                        path |-> Get(item, "path")])
        /\ UNCHANGED <<items, blobs, files, users, account, nextOid, nextUuid, now, model, loads, served, db_manager, gcs_service, buckets>>

\* success = db_manager.delete_item(item_id, current_user_id)
\* then, if item.get("path"): gcs_service.delete_image(item["path"])
ApiDeleteAfterDb(r, success) ==
    IF ~success THEN [req[r] EXCEPT !.pc = "done", !.status = 500]
    ELSE IF Truthy(req[r].path)
         THEN [req[r] EXCEPT !.pc = "blob_exists", !.status = 200]
         ELSE [req[r] EXCEPT !.pc = "done", !.status = 200]
ApiDeleteDb(r, ok) ==
    /\ At(r, "delete", "db_delete")
    /\ items' = DeleteColl(items, req[r].item_id, req[r].uid, ok)
    /\ Set(r, ApiDeleteAfterDb(r, DeleteResult(items, req[r].item_id, req[r].uid, ok)))
    /\ UNCHANGED <<blobs, files, users, account, nextOid, nextUuid, now, model, loads, served, db_manager, gcs_service, buckets>>

(***************************************************************************)
(* API: POST /v1/items/{item_id}/upload-image.  The route calls            *)
(* save_image(image=..., blob_path=...); save_image has no blob_path       *)
(* parameter and requires filename, so the call raises TypeError before    *)
(* any bucket call and the route answers 500.                              *)
(***************************************************************************)
ApiUploadImage(uid, item_id, isImage, ok) ==
    LET item == GetItemById(items, item_id, uid, ok)
    IN  /\ Return([op |-> "upload", item_id |-> item_id,
                    found |-> item # NoDoc, isImage |-> isImage,
                    status |-> IF item = NoDoc THEN 404
                               ELSE IF ~isImage THEN 400 ELSE 500,
                    path |-> None])
        /\ UNCHANGED <<items, blobs, files, users, account, nextOid, nextUuid, now, model, loads, served, db_manager, gcs_service, buckets>>

(***************************************************************************)
(* Streamlit wardrobe manager: the "Add New Item" form.  The handles db    *)
(* and gcs are in hand; the item carries no user_id.                       *)
(***************************************************************************)
UploadName == <<"f", ".", "p", "n", "g">>
StItem(name, hasFile, image_path) ==
    [custom_name |-> name, category |-> StrCat(<<"h", "a", "t">>), body_section |-> 1,
     notes |-> <<>>, colors |-> <<>>,
     display_name |-> IF hasFile THEN UploadName ELSE name,
     path |-> image_path]
\* filename=custom_name.replace(" ", "_").lower(), category="wardrobe"
StFileName(name) == Lower(Replace(name, " ", "_"))
StImagePath(name) == BlobName("wardrobe", StFileName(name))
\* image_path = gcs.save_image(...): a GoogleCloudError ends the script run
StAddSave(r, name, hasFile, ok) ==
    /\ Free(r)
    /\ blobs' = IF hasFile /\ ok THEN blobs \cup {StImagePath(name)} ELSE blobs
    /\ Set(r, [op |-> "st_add", name |-> name, hasFile |-> hasFile, blob |-> "none",
               pc |-> IF hasFile /\ ~ok THEN "done" ELSE "insert",
               status |-> IF hasFile /\ ~ok THEN "aborted" ELSE "saving",
               path |-> IF hasFile /\ ok THEN StImagePath(name) ELSE None])
    /\ UNCHANGED <<items, files, users, account, nextOid, nextUuid, now, model, loads, served, db_manager, gcs_service, buckets>>

\* result = db.add_clothing_item(item_data); on failure, gcs.delete_image(image_path)
StAddInsert(r, ok) ==
    LET item_data == StItem(req[r].name, req[r].hasFile, req[r].path)
        fails == ~ok \/ AddRaises(item_data)
    IN  /\ At(r, "st_add", "insert")
        /\ fails \/ nextOid < MaxOids
        /\ items' = IF fails THEN items
                    ELSE items \cup {NewDoc(item_data, nextOid + 1, now)}
        /\ nextOid' = IF fails THEN nextOid ELSE nextOid + 1
        /\ Set(r, IF ~fails THEN [req[r] EXCEPT !.pc = "done", !.status = "added"]
                  ELSE IF Truthy(req[r].path)
                       THEN [req[r] EXCEPT !.pc = "blob_exists", !.status = "failed"]
                       ELSE [req[r] EXCEPT !.pc = "done", !.status = "failed"])
        /\ UNCHANGED <<blobs, files, users, account, nextUuid, now, model, loads, served, db_manager, gcs_service, buckets>>

(***************************************************************************)
(* Streamlit wardrobe manager: the confirmed delete.  db.get_all_items()   *)
(* and db.delete_item(item_id) are called without an owner.                *)
(***************************************************************************)
RenderId(d) == [x \in DOMAIN d |-> IF x = "_id" THEN OidStr(d[x]) ELSE d[x]]
UnscopedGetAllItems(coll, ok) == IF ~ok THEN {} ELSE {RenderId(d) : d \in coll}
\* for i in all_items: if i["_id"] == item_id: item = i
StDeleteGet(r, item_id, ok) ==
    LET found == {i \in UnscopedGetAllItems(items, ok) : i._id = item_id}
    IN  /\ Free(r)
        /\ Set(r, [op |-> "st_delete", pc |-> "db_delete", item_id |-> item_id,
                   status |-> "deleting", blob |-> "none",
                   path |-> IF found = {} THEN None
                            ELSE Get(CHOOSE i \in found : TRUE, "path")])
        /\ UNCHANGED <<items, blobs, files, users, account, nextOid, nextUuid, now, model, loads, served, db_manager, gcs_service, buckets>>

\* if db.delete_item(item_id): if item and item.get("path"): gcs.delete_image(...)
StDeleteDb(r, ok) ==
    LET success == DeleteResult(items, req[r].item_id, None, ok)
    IN  /\ At(r, "st_delete", "db_delete")
        /\ items' = DeleteColl(items, req[r].item_id, None, ok)
        /\ Set(r, IF ~success THEN [req[r] EXCEPT !.pc = "done", !.status = "kept"]
                  ELSE IF Truthy(req[r].path)
                       THEN [req[r] EXCEPT !.pc = "blob_exists", !.status = "deleted"]
                       ELSE [req[r] EXCEPT !.pc = "done", !.status = "deleted"])
        /\ UNCHANGED <<blobs, files, users, account, nextOid, nextUuid, now, model, loads, served, db_manager, gcs_service, buckets>>

(***************************************************************************)
(* Legacy WardrobeManager: images are files under WARDROBE_IMAGES_DIR,     *)
(* documents carry no owner and are found by _id alone.                    *)
(***************************************************************************)
WARDROBE_IMAGES_DIR == <<"artifacts", "/", "images", "/", "wardrobe">>
Uuid(n) == <<"u", HexChars[n + 1]>>
\* uploaded_file.name.split(".")[-1].lower()
FileExtension(name) ==
    LET dots == {i \in 1..Len(name) : name[i] = "."}
    IN  Lower(IF dots = {} THEN name
              ELSE SubSeq(name, (CHOOSE i \in dots : \A j \in dots : j <= i) + 1,
                          Len(name)))
LegacyImagePath(category, name, n) ==
    WARDROBE_IMAGES_DIR \o <<"/">> \o category \o <<"/">> \o Uuid(n)
        \o <<".">> \o FileExtension(name)
\* save_uploaded_image: the path written, or None
LegacySaveImage(category, ok) ==
    LET path == LegacyImagePath(category, UploadName, nextUuid + 1)
    IN  /\ ~ok \/ nextUuid < MaxUuids
        /\ files' = IF ok THEN files \cup {path} ELSE files
        /\ nextUuid' = IF ok THEN nextUuid + 1 ELSE nextUuid
        /\ Return([op |-> "lg_save", path |-> IF ok THEN path ELSE None])
        /\ UNCHANGED <<items, blobs, users, account, nextOid, now, model, loads, served, db_manager, gcs_service, buckets>>

\* add_clothing_item of the legacy manager: stamps, inserts, no owner conversion
LegacyNewDoc(item_data, n, t) == Upd(Stamped(item_data, t), "_id", NewOid(n))
LegacyAddItem(item_data, ok) ==
    /\ ~ok \/ nextOid < MaxOids
    /\ items' = IF ok THEN items \cup {LegacyNewDoc(item_data, nextOid + 1, now)}
                ELSE items
    /\ nextOid' = IF ok THEN nextOid + 1 ELSE nextOid
    /\ Return([op |-> "lg_add", id |-> IF ok THEN OidStr(NewOid(nextOid + 1)) ELSE None])
    /\ UNCHANGED <<blobs, files, users, account, nextUuid, now, model, loads, served, db_manager, gcs_service, buckets>>

\* "wardrobe" in item["path"]
InWardrobe(path) == \E i \in 1..Len(path) : path[i] = "wardrobe"
\* delete_item, first half: find_one, then delete_image_file(item["path"]);
\* os.remove may fail, which delete_image_file swallows
LegacyDeleteFind(r, item_id, ok, rmOk) ==
    LET m == IF ok /\ IsValidOid(item_id)
             THEN Find(items, [_id |-> ObjectId(item_id)]) ELSE {}
        path == IF m = {} THEN None ELSE Get(CHOOSE d \in m : TRUE, "path")
        removes == Truthy(path) /\ InWardrobe(path) /\ path \in files /\ rmOk
    IN  /\ Free(r)
        /\ files' = IF removes THEN files \ {path} ELSE files
        /\ Set(r, [op |-> "lg_delete", item_id |-> item_id, path |-> path,
                   blob |-> IF removes THEN "deleted" ELSE "none",
                   pc |-> IF ok /\ IsValidOid(item_id) THEN "db_delete" ELSE "done",
                   status |-> FALSE])
        /\ UNCHANGED <<items, blobs, users, account, nextOid, nextUuid, now, model, loads, served, db_manager, gcs_service, buckets>>

\* delete_item, second half: delete_one; returns deleted_count > 0
LegacyDeleteDb(r, ok) ==
    /\ At(r, "lg_delete", "db_delete")
    /\ items' = DeleteColl(items, req[r].item_id, None, ok)
    /\ Set(r, [req[r] EXCEPT !.pc = "done",
                             !.status = DeleteResult(items, req[r].item_id, None, ok)])
    /\ UNCHANGED <<blobs, files, users, account, nextOid, nextUuid, now, model, loads, served, db_manager, gcs_service, buckets>>

(***************************************************************************)
(* The item and image lifecycle: the API routes, the Streamlit flows and   *)
(* the legacy manager over one collection and one bucket.                  *)
(***************************************************************************)
LifeName == <<"B", " ", "d">>
CreatePaths == {None, StImagePath(LifeName)}
LegacyItem(path) ==
    [custom_name |-> <<"h">>, category |-> StrCat(<<"h", "a", "t">>), path |-> path]

\* the API delete route against items and blobs made by the API and by the
\* Streamlit add flow, with NReq handler runs in flight
Spec == Init /\ [][
    \/ \E path \in CreatePaths, ok \in BOOLEAN :
            ApiCreateItem(UserA, ApiItem(LifeName, path), ok)
    \/ \E r \in Req :
        \/ \E hasFile \in BOOLEAN, ok \in BOOLEAN : StAddSave(r, LifeName, hasFile, ok)
        \/ \E ok \in BOOLEAN : StAddInsert(r, ok)
        \/ \E id \in ItemIdStrs, ok \in BOOLEAN : ApiDeleteGet(r, UserA, id, ok)
        \/ \E ok \in BOOLEAN : ApiDeleteDb(r, ok)
        \/ \E ok \in BOOLEAN : BlobExists(r, ok)
        \/ \E ok \in BOOLEAN : BlobDelete(r, ok)
    ]_vars

\* API delete runs in flight together, with a database and a bucket that
\* answer every call
SpecRace == Init /\ [][
    \/ \E path \in CreatePaths : ApiCreateItem(UserA, ApiItem(LifeName, path), TRUE)
    \/ \E r \in Req :
        \/ \E hasFile \in BOOLEAN : StAddSave(r, LifeName, hasFile, TRUE)
        \/ StAddInsert(r, TRUE)
        \/ \E id \in ItemIdStrs : ApiDeleteGet(r, UserA, id, TRUE)
        \/ ApiDeleteDb(r, TRUE)
        \/ BlobExists(r, TRUE)
        \/ BlobDelete(r, TRUE)
    ]_vars

\* every operation on items and images, one handler run at a time
SpecLife == Init /\ [][
    \/ \E path \in CreatePaths, ok \in BOOLEAN :
            ApiCreateItem(UserA, ApiItem(LifeName, path), ok)
    \/ \E id \in ItemIdStrs, ok \in BOOLEAN :
            ApiUpdateItem(UserA, id, [custom_name |-> <<"h">>], ok)
    \/ \E id \in ItemIdStrs, isImage \in BOOLEAN, ok \in BOOLEAN :
            ApiUploadImage(UserA, id, isImage, ok)
    \/ \E ok \in BOOLEAN : LegacySaveImage(<<"h", "a", "t">>, ok)
    \/ \E path \in {None} \cup files, ok \in BOOLEAN : LegacyAddItem(LegacyItem(path), ok)
    \/ \E hasFile \in BOOLEAN, ok \in BOOLEAN : StAddSave(1, LifeName, hasFile, ok)
    \/ \E ok \in BOOLEAN : StAddInsert(1, ok)
    \/ \E id \in ItemIdStrs, ok \in BOOLEAN : ApiDeleteGet(1, UserA, id, ok)
    \/ \E ok \in BOOLEAN : ApiDeleteDb(1, ok)
    \/ \E id \in ItemIdStrs, ok \in BOOLEAN : StDeleteGet(1, id, ok)
    \/ \E ok \in BOOLEAN : StDeleteDb(1, ok)
    \/ \E ok \in BOOLEAN : BlobExists(1, ok)
    \/ \E ok \in BOOLEAN : BlobDelete(1, ok)
    \/ \E id \in ItemIdStrs, ok \in BOOLEAN, rmOk \in BOOLEAN :
            LegacyDeleteFind(1, id, ok, rmOk)
    \/ \E ok \in BOOLEAN : LegacyDeleteDb(1, ok)
    ]_vars

(***************************************************************************)
(* The item store on its own: the MongoDBManager methods called by        *)
(* callers of several owners.  Each call leaves its arguments and its      *)
(* result in ret.                                                          *)
(***************************************************************************)
StoreLeaves == UNCHANGED <<blobs, files, users, account, nextUuid, req, model, loads, served, db_manager, gcs_service, buckets>>

MgrAdd(item_data, ok) ==
    LET fails == ~ok \/ AddRaises(item_data)
        doc == NewDoc(item_data, nextOid + 1, now)
    IN  /\ fails \/ nextOid < MaxOids
        /\ items' = IF fails THEN items ELSE items \cup {doc}
        /\ nextOid' = IF fails THEN nextOid ELSE nextOid + 1
        /\ ret' = [op |-> "add", input |-> item_data, ok |-> ok,
                   out |-> IF fails THEN None ELSE OidStr(doc._id)]
        /\ UNCHANGED now /\ StoreLeaves

MgrRead(op, args, user_id, ok, out) ==
    /\ ret' = [op |-> op, args |-> args, user_id |-> user_id, ok |-> ok,
               out |-> out]
    /\ UNCHANGED <<items, nextOid, now>> /\ StoreLeaves

MgrGetAll(user_id, ok) ==
    MgrRead("get_all", <<>>, user_id, ok, GetAllItems(items, user_id, ok))
MgrGetById(item_id, user_id, ok) ==
    /\ ret' = [op |-> "get", args |-> item_id, user_id |-> user_id, ok |-> ok,
               out |-> GetItemById(items, item_id, user_id, ok)]
    /\ UNCHANGED <<items, nextOid, now>> /\ StoreLeaves
MgrSearch(query, user_id, ok) ==
    MgrRead("search", query, user_id, ok, SearchItems(items, query, user_id, ok))
MgrByCategory(category, user_id, ok) ==
    MgrRead("by_category", category, user_id, ok,
            GetItemsByCategory(items, category, user_id, ok))
MgrCategories(user_id, ok) ==
    MgrRead("categories", <<>>, user_id, ok, GetCategories(items, user_id, ok))
MgrCount(user_id, ok) ==
    MgrRead("count", <<>>, user_id, ok, GetItemCount(items, user_id, ok))
MgrCategoryCounts(user_id, ok) ==
    MgrRead("category_counts", <<>>, user_id, ok, GetCategoryCounts(items, user_id, ok))

MgrUpdate(item_id, updates, user_id, ok) ==
    /\ items' = UpdateColl(items, item_id, updates, user_id, now, ok)
    /\ ret' = [op |-> "update", args |-> item_id, updates |-> updates,
               user_id |-> user_id, ok |-> ok,
               out |-> UpdateResult(items, item_id, updates, user_id, now, ok)]
    /\ UNCHANGED <<nextOid, now>> /\ StoreLeaves

MgrDelete(item_id, user_id, ok) ==
    /\ items' = DeleteColl(items, item_id, user_id, ok)
    /\ ret' = [op |-> "delete_item", args |-> item_id, user_id |-> user_id,
               ok |-> ok, out |-> DeleteResult(items, item_id, user_id, ok)]
    /\ UNCHANGED <<nextOid, now>> /\ StoreLeaves

\* owners as callers pass them: an id, another id, absent, not an id
StoreCats == {IntCat(1), StrCat(<<"h">>)}
StoreItem(cat) == [custom_name |-> <<"h">>, category |-> cat, path |-> None]
StoreInputs ==
    {StoreItem(c) : c \in StoreCats}
        \cup {Upd(StoreItem(c), "user_id", u) : c \in StoreCats, u \in {UserA, UserB}}
StoreIds == ItemIdStrs \cup {<<"z">>}

SpecStore == Init /\ [][
    \/ \E item_data \in StoreInputs, ok \in BOOLEAN : MgrAdd(item_data, ok)
    \/ \E u \in {UserA, UserB, None, Rep("z")}, ok \in BOOLEAN :
        \/ MgrGetAll(u, ok)
        \/ \E id \in StoreIds : MgrGetById(id, u, ok)
        \/ \E id \in ItemIdStrs : MgrUpdate(id, [category |-> IntCat(2)], u, ok)
        \/ \E id \in ItemIdStrs : MgrDelete(id, u, ok)
        \/ MgrSearch(<<"H">>, u, ok)
        \/ \E c \in StoreCats : MgrByCategory(c, u, ok)
        \/ MgrCategories(u, ok)
        \/ MgrCount(u, ok)
        \/ MgrCategoryCounts(u, ok)
    ]_vars

(***************************************************************************)
(* Create, then fetch by id, over time: owners given in either case of hex *)
(* or not at all.                                                          *)
(***************************************************************************)
UpperA == Rep("A")
RoundUsers == {UserA, UpperA, UserB, None}
RoundInputs ==
    {StoreItem(c) : c \in StoreCats}
        \cup {Upd(StoreItem(c), "user_id", u) :
                c \in StoreCats, u \in {UserA, UpperA, Rep("z")}}

SpecRound == Init /\ [][
    \/ Tick
    \/ \E item_data \in RoundInputs, ok \in BOOLEAN : MgrAdd(item_data, ok)
    \/ \E u \in RoundUsers, id \in StoreIds, ok \in BOOLEAN : MgrGetById(id, u, ok)
    \/ \E u \in RoundUsers, id \in ItemIdStrs, ok \in BOOLEAN :
            MgrUpdate(id, [category |-> IntCat(2)], u, ok)
    ]_vars

(***************************************************************************)
(* API: GET /v1/stats.  Two store queries, one after the other; the        *)
(* manager answers 0 or {} when a query raises, so the route always        *)
(* answers 200.  counted, grouped and seen record what happened (whether   *)
(* each query ran, and the owner's item ids at the first query); the       *)
(* answer itself is total_items and category_counts.                       *)
(***************************************************************************)
\* total_items = db_manager.get_item_count(current_user_id)
StatsCount(r, uid, ok) ==
    /\ Free(r)
    /\ req' = [req EXCEPT ![r] =
                [op |-> "stats", pc |-> "counts", uid |-> uid,
                 total_items |-> GetItemCount(items, uid, ok),
                 counted |-> ok,
                 seen |-> {d._id : d \in InScope(items, uid)}]]
    /\ UNCHANGED <<items, blobs, files, users, account, nextOid, nextUuid, now, ret, model, loads, served, db_manager, gcs_service, buckets>>

\* category_counts = db_manager.get_category_counts(current_user_id)
StatsCounts(r, ok) ==
    /\ At(r, "stats", "counts")
    /\ req' = [req EXCEPT ![r] = Idle]
    /\ ret' = [op |-> "stats", status |-> 200, uid |-> req[r].uid,
               total_items |-> req[r].total_items,
               category_counts |-> GetCategoryCounts(items, req[r].uid, ok),
               counted |-> req[r].counted, grouped |-> ok]
    /\ UNCHANGED <<items, blobs, files, users, account, nextOid, nextUuid, now, model, loads, served, db_manager, gcs_service, buckets>>

\* the stats route among the creates, updates and deletes of two owners

SpecStats == Init /\ [][
    \/ \E uid \in ApiUsers, ok \in BOOLEAN : ApiCreateItem(uid, ApiItem(<<"h">>, None), ok)
    \/ \E uid \in ApiUsers, id \in ItemIdStrs, ok \in BOOLEAN :
            ApiUpdateItem(uid, id, [category |-> IntCat(2)], ok)
    \/ \E r \in Req :
        \/ \E uid \in ApiUsers, ok \in BOOLEAN : StatsCount(r, uid, ok)
        \/ \E ok \in BOOLEAN : StatsCounts(r, ok)
        \/ \E id \in ItemIdStrs, ok \in BOOLEAN : ApiDeleteGet(r, UserA, id, ok)
        \/ \E ok \in BOOLEAN : ApiDeleteDb(r, ok)
    ]_vars

(***************************************************************************)
(* Login, after the identity provider's token has been verified: sub and   *)
(* email are the token's claims.                                           *)
(*                                                                         *)
(* v1, POST /v1/auth/google: MongoDBManager.create_or_get_user, a find_one *)
(* followed by an update_one or an insert_one on the users collection; no  *)
(* index is declared on it.  A driver error ends the route with a 500.     *)
(***************************************************************************)
Name == <<"n">>
LoginAnswer(op, raised) ==
    [op |-> op, raised |-> raised, status |-> IF raised THEN 500 ELSE 200]

UserDoc(data, n, t) ==
    [_id |-> NewOid(n), google_id |-> data.google_id, email |-> data.email,
     name |-> data.name, picture |-> None, created_at |-> t, last_login |-> t]
\* update_one({"_id": existing_user["_id"]}, {"$set": {"last_login": utcnow()}})
\* a variant that leaves last_login as it was
UsersAfterUpdate_Unstamped(coll, id, t) == coll
UsersAfterUpdate(coll, id, t) ==
    {IF d._id = id THEN [d EXCEPT !.last_login = t] ELSE d : d \in coll}

\* existing_user = self.user_db.find_one({"google_id": ...})
V1Find(r, sub, email, ok) ==
    LET found == Find(users, [google_id |-> sub])
        data == [google_id |-> sub, email |-> email, name |-> Name]
    IN  /\ Free(r)
        /\ IF ~ok
           THEN req' = req /\ ret' = LoginAnswer("login_v1", TRUE)
           ELSE /\ ret' = ret
                /\ IF found = {}
                   THEN req' = [req EXCEPT ![r] =
                            [op |-> "login_v1", pc |-> "insert", data |-> data]]
                   ELSE \E existing \in found :
                            req' = [req EXCEPT ![r] =
                                [op |-> "login_v1", pc |-> "update", data |-> data,
                                 existing |-> existing._id]]
        /\ UNCHANGED <<items, blobs, files, users, account, nextOid, nextUuid, now, model, loads, served, db_manager, gcs_service, buckets>>

V1Update(r, ok) ==
    /\ At(r, "login_v1", "update")
    /\ users' = IF ok THEN UsersAfterUpdate(users, req[r].existing, now) ELSE users
    /\ req' = [req EXCEPT ![r] = Idle]
    /\ ret' = LoginAnswer("login_v1", ~ok)
    /\ UNCHANGED <<items, blobs, files, account, nextOid, nextUuid, now, model, loads, served, db_manager, gcs_service, buckets>>

V1Insert(r, ok) ==
    /\ At(r, "login_v1", "insert")
    /\ ~ok \/ nextOid < MaxOids
    /\ users' = IF ok THEN users \cup {UserDoc(req[r].data, nextOid + 1, now)} ELSE users
    /\ nextOid' = IF ok THEN nextOid + 1 ELSE nextOid
    /\ req' = [req EXCEPT ![r] = Idle]
    /\ ret' = LoginAnswer("login_v1", ~ok)
    /\ UNCHANGED <<items, blobs, files, account, nextUuid, now, model, loads, served, db_manager, gcs_service, buckets>>

(***************************************************************************)
(* v2, POST /v2/auth/google: one transaction on the SQL account table,     *)
(* whose auth_provider_id and email columns are unique.  INSERT ... ON     *)
(* DUPLICATE KEY UPDATE updates the row that collides on the first unique  *)
(* index (auth_provider_id, then email) instead of inserting; setting an   *)
(* email another row holds is a duplicate-key error.  An error, or the     *)
(* SELECT by auth_provider_id finding no row, leaves the transaction       *)
(* without a commit.                                                       *)
(***************************************************************************)
NULL == <<"NULL">>
AccountRow(sub, email, t) ==
    [id |-> NULL, auth_provider_id |-> sub, auth_provider |-> <<"google">>,
     email |-> email, name |-> Name, picture_url |-> NULL,
     created_at |-> t, last_login |-> t]
\* a variant that stamps last_login alone
OnDuplicate_StampOnly(row, email, t) == [row EXCEPT !.last_login = t]
OnDuplicate(row, email, t) ==
    [row EXCEPT !.email = email, !.name = Name, !.picture_url = NULL, !.last_login = t]
BySub(tbl, sub) == {a \in tbl : a.auth_provider_id = sub}
ByEmail(tbl, email) == {a \in tbl : a.email = email}
Collides(tbl, sub, email) ==
    IF BySub(tbl, sub) # {} THEN BySub(tbl, sub) ELSE ByEmail(tbl, email)
UpsertRaises(tbl, sub, email) ==
    \E a \in BySub(tbl, sub) : \E b \in tbl \ {a} : b.email = email
Upsert(tbl, sub, email, t) ==
    LET hit == Collides(tbl, sub, email)
    IN  IF hit = {} THEN tbl \cup {AccountRow(sub, email, t)}
        ELSE (tbl \ hit) \cup {OnDuplicate(a, email, t) : a \in hit}

V2Login(sub, email, ok) ==
    LET raises == ~ok \/ UpsertRaises(account, sub, email)
        after == Upsert(account, sub, email, now)
        commit == ~raises /\ BySub(after, sub) # {}
    IN  /\ account' = IF commit THEN after ELSE account
        /\ ret' = [op |-> "login_v2", sub |-> sub, token_email |-> email,
                   status |-> IF commit THEN 200 ELSE 500,
                   email |-> IF commit
                             THEN (CHOOSE a \in BySub(after, sub) : TRUE).email
                             ELSE None]
        /\ UNCHANGED <<items, blobs, files, users, nextOid, nextUuid, now, req, model, loads, served, db_manager, gcs_service, buckets>>

Subs == {<<"s", "1">>, <<"s", "2">>}
Emails == {<<"e", "1">>, <<"e", "2">>}

\* logins through the users collection, NReq of them in flight

SpecUsers == Init /\ [][
    \/ Tick
    \/ \E r \in Req :
        \/ \E sub \in Subs, email \in Emails, ok \in BOOLEAN : V1Find(r, sub, email, ok)
        \/ \E ok \in BOOLEAN : V1Update(r, ok)
        \/ \E ok \in BOOLEAN : V1Insert(r, ok)
    ]_vars

\* logins through either route, NReq of the v1 route in flight

SpecLogin == Init /\ [][
    \/ Tick
    \/ \E sub \in Subs, email \in Emails, ok \in BOOLEAN : V2Login(sub, email, ok)
    \/ \E r \in Req :
        \/ \E sub \in Subs, ok \in BOOLEAN : V1Find(r, sub, <<"e", "1">>, ok)
        \/ \E ok \in BOOLEAN : V1Update(r, ok)
        \/ \E ok \in BOOLEAN : V1Insert(r, ok)
    ]_vars

(***************************************************************************)
(* Bearer tokens.  Each login route ends with jwt.encode of a payload that *)
(* expires seven days later, one step of the clock here; the login stamps  *)
(* last_login with the same clock reading, so the token of a stored        *)
(* account is Token(route, row, row.last_login).  get_current_user decodes *)
(* the token and reads payload["user_id"]; it catches InvalidTokenError    *)
(* (bad signature, expired) as 401; a KeyError is not caught and the       *)
(* request ends with a 500.                                                *)
(***************************************************************************)
Token(route, user, t) ==
    IF route = "v1"
    THEN [signed |-> TRUE, route |-> route, exp |-> t + 1,
          payload |-> [user_id |-> OidStr(user._id), email |-> user.email]]
    ELSE [signed |-> TRUE, route |-> route, exp |-> t + 1,
          payload |-> [auth_provider_id |-> user.auth_provider_id,
                       email |-> user.email]]
GetCurrentUser(token, t) ==
    IF ~token.signed \/ token.exp <= t THEN [status |-> 401, user_id |-> None]
    ELSE IF "user_id" \notin DOMAIN token.payload
         THEN [status |-> 500, user_id |-> None]
         ELSE [status |-> 200, user_id |-> token.payload.user_id]

\* POST /v1/items with a bearer token: current_user_id = Depends(get_current_user)
ApiCreateItemAs(token, item, ok) ==
    LET who == GetCurrentUser(token, now)
        item_data == Upd(item, "user_id", who.user_id)
        fails == ~ok \/ AddRaises(item_data)
        done == who.status = 200 /\ ~fails
        doc == NewDoc(item_data, nextOid + 1, now)
    IN  /\ ~done \/ nextOid < MaxOids
        /\ items' = IF done THEN items \cup {doc} ELSE items
        /\ nextOid' = IF done THEN nextOid + 1 ELSE nextOid
        /\ Return([op |-> "create_as", token |-> token, at |-> now, who |-> who,
                    status |-> IF who.status # 200 THEN who.status
                               ELSE IF fails THEN 500 ELSE 200,
                    id |-> IF done THEN OidStr(doc._id) ELSE None])
        /\ UNCHANGED <<blobs, files, users, account, nextUuid, now, model, loads, served, db_manager, gcs_service, buckets>>

\* logins through either route, and item requests that carry the token of a
\* stored account or a token with a bad signature
SpecTokens == Init /\ [][
    \/ Tick
    \/ \E sub \in Subs, ok \in BOOLEAN : V2Login(sub, <<"e", "1">>, ok)
    \/ \E sub \in Subs, ok \in BOOLEAN : V1Find(1, sub, <<"e", "1">>, ok)
    \/ \E ok \in BOOLEAN : V1Update(1, ok)
    \/ \E ok \in BOOLEAN : V1Insert(1, ok)
    \/ \E token \in {Token("v1", u, u.last_login) : u \in users}
                    \cup {Token("v2", a, a.last_login) : a \in account}
                    \cup {[Token("v1", u, now) EXCEPT !.signed = FALSE] : u \in users},
          ok \in BOOLEAN :
            ApiCreateItemAs(token, ApiItem(LifeName, None), ok)
    ]_vars

\* repeated logins of one subject whose email at the provider changes

SpecRelogin == Init /\ [][
    \/ Tick
    \/ \E email \in Emails, ok \in BOOLEAN : V2Login(<<"s", "1">>, email, ok)
    \/ \E email \in Emails, ok \in BOOLEAN : V1Find(1, <<"s", "1">>, email, ok)
    \/ \E ok \in BOOLEAN : V1Update(1, ok)
    \/ \E ok \in BOOLEAN : V1Insert(1, ok)
    ]_vars

(***************************************************************************)
(* Partial updates, through the manager and through PUT /v1/items/{id},    *)
(* of items that carry an owner and a path.                                *)
(***************************************************************************)
UpdateInputs ==
    {Upd(Upd(StoreItem(IntCat(1)), "user_id", u), "path", StImagePath(LifeName)) :
        u \in ApiUsers}
UpdateSets ==
    {[category |-> IntCat(2)], [custom_name |-> <<"x">>, notes |-> <<"n">>]}

SpecUpdate == Init /\ [][
    \/ Tick
    \/ \E item_data \in UpdateInputs, ok \in BOOLEAN : MgrAdd(item_data, ok)
    \/ \E id \in StoreIds, updates \in UpdateSets, u \in ApiUsers \cup {None},
          ok \in BOOLEAN : MgrUpdate(id, updates, u, ok)
    \/ \E uid \in ApiUsers, id \in ItemIdStrs, updates \in UpdateSets \cup {<<>>},
          ok \in BOOLEAN : ApiUpdateItem(uid, id, updates, ok)
    ]_vars

(***************************************************************************)
(* The manager under driver failure.  ok = FALSE is a driver call that     *)
(* raises: a server error, or the AttributeError of a collection handle    *)
(* that connect_to_db left None.  The item methods catch Exception around  *)
(* their whole body; create_or_get_user has no handler, and the error      *)
(* leaves it to the v1 login route.                                        *)
(***************************************************************************)

SpecFail == Init /\ [][
    \/ \E item_data \in {StoreItem(IntCat(1)),
                           Upd(StoreItem(IntCat(1)), "user_id", UserA)},
          ok \in BOOLEAN : MgrAdd(item_data, ok)
    \/ \E u \in {UserA, None}, ok \in BOOLEAN :
        \/ MgrGetAll(u, ok)
        \/ \E id \in ItemIdStrs : MgrGetById(id, u, ok)
        \/ \E id \in ItemIdStrs : MgrUpdate(id, [category |-> IntCat(2)], u, ok)
        \/ \E id \in ItemIdStrs : MgrDelete(id, u, ok)
        \/ MgrSearch(<<"H">>, u, ok)
        \/ MgrByCategory(IntCat(1), u, ok)
        \/ MgrCategories(u, ok)
        \/ MgrCount(u, ok)
        \/ MgrCategoryCounts(u, ok)
    \/ \E ok \in BOOLEAN : V1Find(1, <<"s", "1">>, <<"e", "1">>, ok)
    \/ \E ok \in BOOLEAN : V1Update(1, ok)
    \/ \E ok \in BOOLEAN : V1Insert(1, ok)
    ]_vars

(***************************************************************************)
(* API: GET /v1/items/{item_id} and GET /v1/search.  db is whether         *)
(* get_db_manager() returns a manager: initialize_services leaves it None  *)
(* when no database URI is configured.  raised is the status of the        *)
(* HTTPException the body raises (200 when it returns), status what the    *)
(* route's "except Exception" makes of it.                                 *)
(***************************************************************************)
Blank(query) == \A i \in 1..Len(query) : query[i] = " "

ApiGetItem(uid, item_id, db, ok) ==
    LET item == GetItemById(items, item_id, uid, ok)
        raised == IF ~db THEN 503 ELSE IF item = NoDoc THEN 404 ELSE 200
    IN  /\ Return([op |-> "api_get", args |-> item_id, raised |-> raised,
                   status |-> Wrap500(raised)])
        /\ UNCHANGED <<items, blobs, files, users, account, nextOid, nextUuid, now, model, loads, served, db_manager, gcs_service, buckets>>

ApiSearchItems(uid, query, db, ok) ==
    LET raised == IF Blank(query) THEN 400 ELSE IF ~db THEN 503 ELSE 200
    IN  /\ Return([op |-> "api_search", args |-> query, raised |-> raised,
                   status |-> Wrap500(raised),
                   out |-> IF raised = 200 THEN SearchItems(items, query, uid, ok)
                           ELSE {}])
        /\ UNCHANGED <<items, blobs, files, users, account, nextOid, nextUuid, now, model, loads, served, db_manager, gcs_service, buckets>>

SpecRoutes == Init /\ [][
    \/ \E item_data \in UpdateInputs, ok \in BOOLEAN : MgrAdd(item_data, ok)
    \/ \E uid \in ApiUsers, id \in ItemIdStrs, db \in BOOLEAN, ok \in BOOLEAN :
            ApiGetItem(uid, id, db, ok)
    \/ \E uid \in ApiUsers, id \in ItemIdStrs, updates \in UpdateSets \cup {<<>>},
          ok \in BOOLEAN : ApiUpdateItem(uid, id, updates, ok)
    \/ \E uid \in ApiUsers, q \in {<<>>, <<" ">>, <<"H">>, <<" ", "h">>}, db \in BOOLEAN, ok \in BOOLEAN :
            ApiSearchItems(uid, q, db, ok)
    ]_vars

(***************************************************************************)
(* extract_color_palette.  A pixel is [rgb, alpha]; one channel stands for *)
(* the three, which the code treats alike.  A percentage (count / n) * 100 *)
(* is kept as the exact fraction num / den.  The clustering is the         *)
(* library's: it raises, or labels the selected pixels 0..k-1 in any way.  *)
(***************************************************************************)
\* the three masks, the first that selects a pixel
Foreground(pixels_rgba, alpha_threshold) ==
    LET above(t) == SelectSeq(pixels_rgba, LAMBDA p : p.alpha > t)
    IN  IF above(alpha_threshold) # <<>> THEN above(alpha_threshold)
        ELSE IF above(64) # <<>> THEN above(64)
        ELSE above(0)

\* pixels[labels == label].mean(axis=0), .astype(int)
MeanColor(pixels, labels, label) ==
    LET idx == {i \in 1..Len(labels) : labels[i] = label}
    IN  SumOf([i \in idx |-> pixels[i].rgb]) \div Cardinality(idx)
Share(count, n) == [num |-> count * 100, den |-> n]

\* list.sort(key=..., reverse=True), keys[i] the key of list[i]: stable
SortReverse_Unsorted(list, keys) == list
SortReverse(list, keys) ==
    LET k == Len(list)
        order == CHOOSE f \in [1..k -> 1..k] :
                    \A i, j \in 1..k :
                        i < j => \/ keys[f[i]] > keys[f[j]]
                                 \/ keys[f[i]] = keys[f[j]] /\ f[i] < f[j]
    IN  [i \in 1..k |-> list[order[i]]]

ExtractColorPalette(pixels, labels) ==
    LET n == Len(labels)
        used == {labels[i] : i \in 1..n}
        k == Cardinality(used)
        first(l) == CHOOSE i \in 1..n : labels[i] = l /\ \A j \in 1..(i - 1) : labels[j] # l
        \* np.unique(labels): ascending
        unique_labels == CHOOSE s \in [1..k -> used] :
                            \A i, j \in 1..k : i < j => s[i] < s[j]
        colors == [i \in 1..k |-> MeanColor(pixels, labels, unique_labels[i])]
        \* Counter(labels).values(): in the order the labels first occur
        counted == CHOOSE s \in [1..k -> used] :
                      \A i, j \in 1..k : i < j => first(s[i]) < first(s[j])
        color_percentages ==
            [i \in 1..k |-> Share(Cardinality({p \in 1..n : labels[p] = counted[i]}), n)]
    IN  SortReverse([i \in 1..k |->
                        [color |-> colors[i], percentage |-> color_percentages[i]]],
                    [i \in 1..k |-> color_percentages[i].num])

Labelings(n) ==
    {l \in [1..n -> 0..(n - 1)] :
        \A i \in 1..n : \A c \in 0..(l[i] - 1) : \E j \in 1..n : l[j] = c}

InitPalette ==
    /\ items = {} /\ blobs = {} /\ files = {} /\ users = {} /\ account = {}
    /\ nextOid = 0 /\ nextUuid = 0 /\ now = 0
    /\ req = [r \in Req |-> Idle]
    /\ model = "unset" /\ loads = 0 /\ served = <<>>
    /\ db_manager = NoDoc /\ gcs_service = NoDoc /\ buckets = {}
    /\ \E image \in UNION {[1..n -> [rgb : {1, 9}, alpha : {0, 30, 80, 200}]] :
                                n \in 1..MaxPixels},
          t \in {40, 128, 200} :
            ret = [op |-> "image", image |-> image, alpha_threshold |-> t]

PaletteRun(ok) ==
    /\ ret.op = "image"
    /\ LET pixels == Foreground(ret.image, ret.alpha_threshold)
       IN  \/ /\ ~ok \/ pixels = <<>>
              /\ ret' = [op |-> "palette", image |-> ret.image,
                         alpha_threshold |-> ret.alpha_threshold,
                         pixels |-> pixels, raised |-> TRUE]
           \/ /\ ok /\ pixels # <<>>
              /\ \E labels \in Labelings(Len(pixels)) :
                    ret' = [op |-> "palette", image |-> ret.image,
                            alpha_threshold |-> ret.alpha_threshold,
                            pixels |-> pixels, raised |-> FALSE, labels |-> labels,
                            palette |-> ExtractColorPalette(pixels, labels)]
    /\ UNCHANGED <<items, blobs, files, users, account, nextOid, nextUuid, now, req, model, loads, served, db_manager, gcs_service, buckets>>

SpecPalette == InitPalette /\ [][\E ok \in BOOLEAN : PaletteRun(ok)]_vars

(***************************************************************************)
(* The classifier service, POST /classify.  The handler has no await, so a *)
(* request runs from start to end without another in between.  The loaded  *)
(* model, in eval mode under no_grad, is a function of the image and the   *)
(* prompts: an image is given as the logits that function has for it, or   *)
(* as a file that cannot be opened.  softmax is over powers of 2 in place  *)
(* of e, and a confidence is kept as the exact fraction num / den.         *)
(***************************************************************************)
CLOTHING_CATEGORIES ==
    << <<"dress">>, <<"shirt">>, <<"t-shirt">>, <<"longsleeve">>, <<"pants">>,
       <<"shorts">>, <<"skirt">>, <<"shoes">>, <<"hat">>, <<"outwear">>, <<"other">> >>
Categories == SubSeq(CLOTHING_CATEGORIES, 1, MaxCategories)

\* str.strip()
Strip(str) ==
    LET idx == {i \in 1..Len(str) : str[i] # " "}
    IN  IF idx = {} THEN <<>>
        ELSE SubSeq(str, CHOOSE i \in idx : \A j \in idx : i <= j,
                         CHOOSE i \in idx : \A j \in idx : i >= j)

\* torch.softmax(logits_per_image, dim=1)
Softmax_Sigmoid(logits) ==
    [i \in DOMAIN logits |-> [num |-> 2 ^ logits[i], den |-> 2 ^ logits[i] + 1]]
Softmax(logits) ==
    LET total == SumOf([i \in DOMAIN logits |-> 2 ^ logits[i]])
    IN  [i \in DOMAIN logits |-> [num |-> 2 ^ logits[i], den |-> total]]

\* one result per category, in the order of the list; then sorted by confidence
ClassifyResults(categories, logits) ==
    LET probs == Softmax(logits)
        results == [i \in 1..Len(categories) |->
                       [label |-> Strip(categories[i]), confidence |-> probs[i]]]
    IN  SortReverse(results, [i \in 1..Len(categories) |-> probs[i].num])

\* return {"message": results[0]["label"]}
Message_ByTurn(results) ==
    IF Len(served) % 2 = 0 THEN results[1].label ELSE results[Len(results)].label
Message(results) == results[1].label

\* @lru_cache(maxsize=1) on get_cached_model(): the first call's return value,
\* (None, None, None) included, is what every call returns
CachedModel_Retry(ok) == IF ok THEN "loaded" ELSE "unset"
CachedModel(ok) == IF ok THEN "loaded" ELSE "none"

Classify(image, ok) ==
    LET loading == model = "unset"
        cached == IF loading THEN CachedModel(ok) ELSE model
        raises == cached # "loaded" \/ ~image.readable
        results == IF raises THEN <<>> ELSE ClassifyResults(Categories, image.logits)
        answer == [op |-> "classify", image |-> image,
                   status |-> IF raises THEN 503 ELSE 200,
                   message |-> IF raises THEN None ELSE Message(results),
                   results |-> results]
    IN  /\ Len(served) < MaxRuns
        /\ model' = cached
        /\ loads' = IF loading THEN loads + 1 ELSE loads
        /\ ret' = answer
        /\ served' = Append(served, answer)
        /\ UNCHANGED <<items, blobs, files, users, account, nextOid, nextUuid, now, req,
                       db_manager, gcs_service, buckets>>

SpecClassify ==
    Init /\ [][\E ok \in BOOLEAN,
                  image \in [readable : BOOLEAN, logits : [1..MaxCategories -> 0..1]] :
                    Classify(image, ok)]_vars

(***************************************************************************)
(* GCSService called directly: save_image, delete_image and image_exists   *)
(* on one bucket, with NReq delete_image calls in flight.  The bucket      *)
(* answers every call here, so an error of delete_image is one it made     *)
(* itself.                                                                 *)
(***************************************************************************)
\* blob.upload_from_string(...); return blob_name
SaveImage(filename, category, ok) ==
    /\ blobs' = IF ok THEN blobs \cup {BlobName(category, filename)} ELSE blobs
    /\ Return([op |-> "save_image", filename |-> filename, category |-> category,
                raised |-> ~ok,
                out |-> IF ok THEN BlobName(category, filename) ELSE None])
    /\ UNCHANGED <<items, files, users, account, nextOid, nextUuid, now, model, loads, served, db_manager, gcs_service, buckets>>

DeleteImage(r, gcs_path) ==
    /\ Free(r)
    /\ Set(r, [op |-> "delete_image", pc |-> "blob_exists", path |-> gcs_path,
               status |-> 0, blob |-> "none"])
    /\ UNCHANGED <<items, blobs, files, users, account, nextOid, nextUuid, now, model, loads, served, db_manager, gcs_service, buckets>>

\* return blob.exists(); except Exception: return False
ImageExists(gcs_path, ok) ==
    /\ Return([op |-> "image_exists", path |-> gcs_path, out |-> ok /\ gcs_path \in blobs])
    /\ UNCHANGED <<items, blobs, files, users, account, nextOid, nextUuid, now, model, loads, served, db_manager, gcs_service, buckets>>

FileNames == {<<"x">>, <<"x", ".", "j", "p", "g">>, <<"x", ".", "J", "P", "G">>}

SpecBucket == Init /\ [][
    \/ \E filename \in FileNames, category \in {"wardrobe", "dataset", "other"},
          ok \in BOOLEAN : SaveImage(filename, category, ok)
    \/ \E filename \in FileNames, ok \in BOOLEAN :
            ImageExists(BlobName("wardrobe", filename), ok)
    \/ \E r \in Req :
        \/ \E filename \in FileNames : DeleteImage(r, BlobName("wardrobe", filename))
        \/ BlobExists(r, TRUE)
        \/ BlobDelete(r, TRUE)
    ]_vars

(***************************************************************************)
(* generate_outfit(image_data).  An item is [id, body_section]; sections   *)
(* are 0 head, 1 upper body, 2 lower body, 3 full body, 4 shoes and 5      *)
(* accessories.  coin is random.choice([True, False]) and choice[s] the    *)
(* draw of random.choice(sections[s]).                                     *)
(***************************************************************************)
GenerateOutfit_Both(image_data, coin, choice) ==
    LET of(s) == SelectSeq(image_data, LAMBDA item : item.body_section = s)
        pick(s) == IF of(s) = <<>> THEN <<>>
                   ELSE <<of(s)[((choice[s] - 1) % Len(of(s))) + 1]>>
    IN  pick(3) \o pick(1) \o pick(2) \o pick(4) \o pick(0)
GenerateOutfit(image_data, coin, choice) ==
    LET of(s) == SelectSeq(image_data, LAMBDA item : item.body_section = s)
        pick(s) == IF of(s) = <<>> THEN <<>>
                   ELSE <<of(s)[((choice[s] - 1) % Len(of(s))) + 1]>>
        has_full_body == of(3) # <<>>
        has_upper_lower == of(1) # <<>> \/ of(2) # <<>>
        use_full_body == IF has_full_body /\ has_upper_lower THEN coin
                         ELSE has_full_body
    IN  (IF use_full_body THEN pick(3) ELSE pick(1) \o pick(2))
            \o pick(4) \o pick(0)

InitOutfit ==
    /\ items = {} /\ blobs = {} /\ files = {} /\ users = {} /\ account = {}
    /\ nextOid = 0 /\ nextUuid = 0 /\ now = 0
    /\ req = [r \in Req |-> Idle]
    /\ model = "unset" /\ loads = 0 /\ served = <<>>
    /\ db_manager = NoDoc /\ gcs_service = NoDoc /\ buckets = {}
    /\ \E n \in 0..MaxItems : \E section \in [1..n -> 0..5] :
            ret = [op |-> "wardrobe",
                   image_data |-> [i \in 1..n |-> [id |-> i, body_section |-> section[i]]]]

OutfitRun(coin, choice) ==
    /\ ret.op = "wardrobe"
    /\ ret' = [op |-> "outfit", image_data |-> ret.image_data,
               outfit |-> GenerateOutfit(ret.image_data, coin, choice)]
    /\ UNCHANGED <<items, blobs, files, users, account, nextOid, nextUuid, now, req, model, loads, served, db_manager, gcs_service, buckets>>

SpecOutfit ==
    InitOutfit /\ [][\E coin \in BOOLEAN, choice \in [0..4 -> 1..MaxItems] :
                        OutfitRun(coin, choice)]_vars

(***************************************************************************)
(* Process-wide service handles.  The API keeps its database manager in    *)
(* the global _db_manager, set once by initialize_services at startup;     *)
(* MONGODB_URI is set, or the import of the module has raised.  The        *)
(* constructor of MongoDBManager calls connect_to_db, which catches every  *)
(* error of the connection and leaves client None: the constructor returns *)
(* a manager either way.  The storage module keeps one GCSService in the   *)
(* global _gcs_service.  A global that holds no object is NoDoc.           *)
(***************************************************************************)
BUCKET_NAME == "bucket-1"
\* get_gcs_service(bucket_name): the value of _gcs_service afterwards, which
\* is the service returned
GetGcsService(singleton, bucket_name) ==
    IF singleton = NoDoc THEN [bucket_name |-> bucket_name] ELSE singleton

InitializeServices(connects) ==
    /\ db_manager = NoDoc
    /\ db_manager' = [client |-> IF connects THEN <<"MongoClient">> ELSE None]
    /\ gcs_service' = GetGcsService(gcs_service, BUCKET_NAME)
    /\ Return([op |-> "startup", connects |-> connects])
    /\ UNCHANGED <<items, blobs, files, users, account, nextOid, nextUuid, now,
                   model, loads, served, buckets>>

\* GET /v1/health
HealthCheck ==
    /\ Return([op |-> "health", db_manager |-> db_manager,
                body |-> IF db_manager = NoDoc
                         THEN [status |-> "starting", database |-> "initializing"]
                         ELSE [status |-> "healthy", database |-> "ready"]])
    /\ UNCHANGED <<items, blobs, files, users, account, nextOid, nextUuid, now,
                   model, loads, served, db_manager, gcs_service, buckets>>

\* get_gcs_service(bucket_name).save_image(...) or .delete_image(...): the
\* service works on the bucket named by its own _bucket_name
ServiceCall(bucket_name, call, filename, ok) ==
    LET service == GetGcsService(gcs_service, bucket_name)
        blob == <<service.bucket_name, BlobName("wardrobe", filename)>>
        done == ok /\ (call = "save" \/ blob \in buckets)
    IN  /\ gcs_service' = service
        /\ buckets' = IF ~done THEN buckets
                       ELSE IF call = "save" THEN buckets \cup {blob}
                       ELSE buckets \ {blob}
        /\ Return([op |-> "service", call |-> call, asked |-> bucket_name,
                    key |-> blob[2], bucket |-> service.bucket_name,
                    raised |-> ~ok, done |-> done])
        /\ UNCHANGED <<items, blobs, files, users, account, nextOid, nextUuid, now,
                       model, loads, served, db_manager>>

SpecServices == Init /\ [][
    \/ \E connects \in BOOLEAN : InitializeServices(connects)
    \/ HealthCheck
    \/ \E bucket_name \in {BUCKET_NAME, "bucket-2"}, call \in {"save", "delete"},
          filename \in FileNames, ok \in BOOLEAN :
            ServiceCall(bucket_name, call, filename, ok)
    ]_vars

(***************************************************************************)
(* Claims.                                                                 *)
(***************************************************************************)
RecordOf(item_id) == Find(items, [_id |-> ObjectId(item_id)])
\* the step in which the run in slot r answers
Answers(r, op) == req[r].op = op /\ req'[r] = Idle /\ ret'.op = op

\* C1: when the API delete route answers success for an item that has an image
\* path and the storage delete did not raise, then at the answer the item
\* record is gone and no blob exists at that path.
C1_DeleteRemovesRecordAndBlob ==
    [][\A r \in Req :
        (/\ Answers(r, "delete")
         /\ ret'.status = 200
         /\ Truthy(req[r].path)
         /\ ret'.blob # "raised")
        => (/\ req[r].path \notin blobs'
            /\ Find(items', [_id |-> ObjectId(req[r].item_id)]) = {})]_vars
C1_Witness == ret.op = "delete" /\ ret.status = 200 /\ ret.blob = "deleted"

\* C2: when the blob deletion raises in the API delete route, the record is
\* deleted all the same, the route answers success, and no step of the route
\* touches a stored item other than the one it deletes.
C2_BlobFailureKeepsDelete ==
    [][\A r \in Req :
        /\ (Answers(r, "delete") /\ ret'.blob = "raised")
            => (/\ ret'.status = 200
                /\ Find(items', [_id |-> ObjectId(req[r].item_id)]) = {}
                /\ items' = items
                /\ blobs' = blobs)
        /\ (req[r].op = "delete" /\ req'[r] # req[r])
            => (/\ items' \subseteq items
                /\ (items \ items') \subseteq RecordOf(req[r].item_id))]_vars
C2_Witness == ret.op = "delete" /\ ret.status = 200 /\ ret.blob = "raised"

\* C3: on every deletion path (API route, Streamlit handler, legacy manager)
\* an image is removed only once the item's record has been deleted.
C3_ImageDeletedAfterRecord ==
    [][\A r \in Req :
        /\ (req[r].op \in {"delete", "st_delete"} /\ req[r].pc = "blob_delete"
                /\ req'[r] = Idle /\ blobs' # blobs)
            => RecordOf(req[r].item_id) = {}
        /\ (IsFree(r) /\ req'[r].op = "lg_delete" /\ files' # files)
            => RecordOf(req'[r].item_id) = {}]_vars

\* C4: every item whose path is set names a blob that exists in the bucket.
C4_PathNamesExistingBlob ==
    \A d \in items :
        ("user_id" \in DOMAIN d /\ Truthy(Get(d, "path"))) => d.path \in blobs

\* C5: each blob key is referenced by the path of at most one item.
C5_BlobOwnedByOneItem ==
    \A k \in blobs : Cardinality({d \in items : Get(d, "path") = k}) <= 1

\* C6: an item-store operation issued for a non-empty owner A (read-all,
\* read-by-id, update, delete, search, by-category, categories, item count,
\* category counts) never returns, modifies, deletes or counts an item whose
\* owner is not A.
OwnerIs(d, A) == "user_id" \in DOMAIN d /\ OidStr(d.user_id) = Lower(A)
ScopedOps == {"get_all", "get", "update", "delete_item", "search", "by_category",
              "categories", "count", "category_counts"}
C6_OwnerScoped ==
    [][(ret'.op \in ScopedOps /\ Truthy(ret'.user_id)) =>
        LET A == ret'.user_id
            out == ret'.out
            mine == {d \in items : OwnerIs(d, A)}
        IN  /\ (items \ mine) \subseteq items'
            /\ \A d \in items' \ items : OwnerIs(d, A)
            /\ ret'.op \in {"get_all", "search", "by_category"}
                => \A d \in out : Get(d, "user_id") = Lower(A)
            /\ (ret'.op = "get" /\ out # NoDoc) => Get(out, "user_id") = Lower(A)
            /\ ret'.op = "count" => out <= Cardinality(mine)
            /\ ret'.op = "categories" => out \subseteq {CatOf(d) : d \in mine}
            /\ ret'.op = "category_counts"
                => \A c \in DOMAIN out :
                        out[c] <= Cardinality({d \in mine : CatOf(d) = c})
            /\ (ret'.op \in {"update", "delete_item"} /\ out)
                => \E d \in mine : OidStr(d._id) = ret'.args]_vars
C6_Witness ==
    /\ ret.op = "get" /\ ret.user_id = UserA /\ ret.ok /\ ret.out = NoDoc
    /\ \E d \in items : OidStr(d._id) = ret.args /\ OwnerIs(d, UserB)

\* C7: an item created through add_clothing_item and then fetched with
\* get_item_by_id by the same owner, nothing in between, comes back with every
\* input field at its input value, plus created_at, updated_at and the id; the
\* id and the owner come back as the strings of the ObjectIds.
C7_CreateThenFetch ==
    [][(/\ ret.op = "add" /\ ret.out # None
        /\ ret'.op = "get" /\ ret'.ok
        /\ ret'.args = ret.out
        /\ ret'.user_id = Get(ret.input, "user_id")) =>
        LET inp == ret.input
            doc == ret'.out
        IN  /\ doc # NoDoc
            /\ DOMAIN doc = DOMAIN inp \cup {"_id", "created_at", "updated_at"}
            /\ \A f \in DOMAIN inp \ {"user_id"} : doc[f] = inp[f]
            /\ "user_id" \in DOMAIN inp => doc.user_id = Lower(inp.user_id)
            /\ doc._id = ret.out
            /\ doc.created_at \in 0..now
            /\ doc.updated_at \in doc.created_at..now]_vars
C7_Witness ==
    /\ ret.op = "get" /\ ret.ok /\ ret.user_id = UpperA /\ ret.out # NoDoc
    /\ ret.out.user_id = UserA
    /\ ret.out.category = StrCat(<<"h">>)
    /\ ret.out.created_at = 1

C9_AccountsUnique ==
    /\ \A u1 \in users : \A u2 \in users \ {u1} :
            u1.google_id # u2.google_id /\ u1.email # u2.email
    /\ \A a1 \in account : \A a2 \in account \ {a1} :
            a1.auth_provider_id # a2.auth_provider_id /\ a1.email # a2.email

C12_UpdateFrame ==
    [][/\ (now' = now /\ ret'.op = "update" /\ "updates" \in DOMAIN ret') =>
            LET upd == ret'.updates
                u == ret'.user_id
                hit == {d \in items : /\ OidStr(d._id) = ret'.args
                                      /\ Truthy(u) => OwnerIs(d, u)}
                set(d) == [f \in DOMAIN d \cup DOMAIN upd \cup {"updated_at"} |->
                            IF f = "updated_at" THEN now
                            ELSE IF f \in DOMAIN upd THEN upd[f] ELSE d[f]]
            IN  IF ret'.ok /\ hit # {}
                THEN /\ items' = (items \ hit) \cup {set(d) : d \in hit}
                     /\ ret'.out = (items' # items)
                ELSE items' = items /\ ret'.out = FALSE
       /\ (now' = now /\ ret'.op = "update" /\ "raised" \in DOMAIN ret') =>
            /\ \A d \in items \ items' : \E e \in items' \ items :
                    /\ e._id = d._id /\ e.created_at = d.created_at
                    /\ e.user_id = d.user_id /\ e.path = d.path
                    /\ e.updated_at = now
            /\ Cardinality(items') = Cardinality(items)
            /\ ret'.raised # 200 => items' = items]_vars
C12_Witness ==
    /\ ret.op = "update" /\ "updates" \in DOMAIN ret /\ ret.out
    /\ ret.updates = [category |-> IntCat(2)]
    /\ \E d \in items :
        /\ OidStr(d._id) = ret.args /\ d.category = IntCat(2)
        /\ d.updated_at > d.created_at
        /\ d.path = StImagePath(LifeName) /\ d.custom_name = <<"h">>

(***************************************************************************)
(* C13, as stated: every manager operation, create_or_get_user included,   *)
(* raises nothing when the driver fails: it returns its neutral value and  *)
(* leaves items and accounts as they were.                                 *)
(***************************************************************************)
ItemOps == {"add", "get_all", "get", "update", "delete_item", "search",
            "by_category", "categories", "count", "category_counts"}
Neutral(op) ==
    CASE op = "add" -> None
      [] op = "get" -> NoDoc
      [] op \in {"update", "delete_item"} -> FALSE
      [] op = "count" -> 0
      [] op = "category_counts" -> <<>>
      [] OTHER -> {}
ItemFailure ==
    (/\ ret'.op \in ItemOps /\ "ok" \in DOMAIN ret' /\ ~ret'.ok
     /\ (ret' # ret \/ items' # items))
        => /\ ret'.out = Neutral(ret'.op)
           /\ items' = items /\ users' = users
C13_NothingRaises ==
    [][/\ ItemFailure
       /\ (ret'.op = "login_v1" => ~ret'.raised)]_vars

(***************************************************************************)
(* C13, amended: the ten item operations raise nothing when the driver     *)
(* fails, return their neutral value and leave items and accounts as they  *)
(* were; create_or_get_user lets the driver's error reach its caller, and  *)
(* the step that raised leaves items and accounts as they were.            *)
(***************************************************************************)
C13_FailureNeutral ==
    [][/\ ItemFailure
       /\ (ret'.op = "login_v1" /\ ret'.raised) => (items' = items /\ users' = users)]_vars
C13_Witness ==
    /\ ret.op = "delete_item" /\ ~ret.ok /\ ret.out = FALSE
    /\ Find(items, ByIdQuery(ret.args, ret.user_id)) # {}
    /\ users # {}

(***************************************************************************)
(* C14: the status an item route's body raises (404 for a missing item,    *)
(* 400 for an update with no fields or a blank query, 503 without a        *)
(* database manager) is the status the client receives.                    *)
(***************************************************************************)
C14_RaisedIsAnswered ==
    (ret.op \in {"api_get", "update", "api_search"} /\ "raised" \in DOMAIN ret)
        => ret.status = ret.raised

(***************************************************************************)
(* C15: every (color, percentage) pair of the palette is the mean color    *)
(* and the share of one cluster, whatever labels the clustering gave, and  *)
(* the percentages sum to 100.                                             *)
(***************************************************************************)
C15_PairsOfOneCluster ==
    (ret.op = "palette" /\ ~ret.raised) =>
        LET n == Len(ret.labels)
            size(l) == Cardinality({p \in 1..n : ret.labels[p] = l})
        IN  /\ \A i \in DOMAIN ret.palette :
                  \E p \in 1..n :
                      /\ ret.palette[i].color = MeanColor(ret.pixels, ret.labels, ret.labels[p])
                      /\ ret.palette[i].percentage = Share(size(ret.labels[p]), n)
            /\ SumOf([i \in DOMAIN ret.palette |-> ret.palette[i].percentage.num])
                  = 100 * n

(***************************************************************************)
(* C16: every percentage of the palette lies in [0,100], and the palette   *)
(* is in descending order of percentage.                                   *)
(***************************************************************************)
C16_RangeAndOrder ==
    (ret.op = "palette" /\ ~ret.raised) =>
        LET share(i) == ret.palette[i].percentage
        IN  /\ \A i \in DOMAIN ret.palette :
                  0 <= share(i).num /\ share(i).num <= 100 * share(i).den
            /\ \A i, j \in DOMAIN ret.palette :
                  i < j => share(i).num * share(j).den >= share(j).num * share(i).den
C16_Witness ==
    /\ ret.op = "palette" /\ ~ret.raised
    /\ ret.labels = <<0, 1, 1>>
    /\ Len(ret.palette) = 2 /\ ret.palette[1].percentage = Share(2, 3)

(***************************************************************************)
(* C17: the pixels clustered are those of the first non-empty selection    *)
(* among alpha > t, alpha > t/2 and alpha > 0, for every threshold t.      *)
(***************************************************************************)
C17_HalfThenAny ==
    ret.op = "palette" =>
        LET twice(t2) == SelectSeq(ret.image, LAMBDA p : 2 * p.alpha > t2)
            t == ret.alpha_threshold
        IN  ret.pixels = IF twice(2 * t) # <<>> THEN twice(2 * t)
                         ELSE IF twice(t) # <<>> THEN twice(t)
                         ELSE twice(0)

(***************************************************************************)
(* C18: over the classify requests of one process the loader runs at most  *)
(* once; when that load fails nothing is loaded later, and the request     *)
(* that loaded and every later one answer 503.                             *)
(***************************************************************************)
C18_LoadOnce ==
    [][/\ loads' <= 1
       /\ (model' = "none" /\ served' # served)
            => /\ ret'.status = 503
               /\ loads' = 1
       /\ model = "none" => (model' = "none" /\ loads' = loads)]_vars
C18_Witness ==
    /\ model = "none" /\ loads = 1 /\ Len(served) = 3
    /\ \A i \in 1..3 : served[i].status = 503 /\ served[i].image.readable

C21_DeleteImageAnswers ==
    [][\A r \in Req :
        Answers(r, "delete_image") =>
            /\ ret'.blob \in {"deleted", "absent"}
            /\ ret'.blob = "deleted" => req[r].path \in blobs
            /\ req[r].path \notin blobs']_vars

(***************************************************************************)
(* C22, as stated: a save stores the blob under images/wardrobe/<name>.jpg *)
(* or images/dataset/<name>.jpg, a key with exactly one .jpg suffix, and   *)
(* returns the key under which the blob then exists.                       *)
(***************************************************************************)
UnderPrefix(key) ==
    \E p \in {WARDROBE_IMAGES_PATH, DATASET_IMAGES_PATH} :
        /\ Len(key) > Len(p) + 1
        /\ SubSeq(key, 1, Len(p) + 1) = p \o <<"/">>
SavedNow == ret'.op = "save_image" /\ ~ret'.raised /\ (ret' # ret \/ blobs' # blobs)
Count(list, s) == Cardinality({i \in DOMAIN list : list[i].body_section = s})
FailedInsert(r) ==
    /\ At(r, "st_add", "insert")
    /\ IF req'[r] = Idle THEN ret'.op = "st_add" /\ ret'.status = "failed"
       ELSE req'[r].status = "failed"
FailedAdd(r) ==
    Answers(r, "st_add") /\ ret'.status = "failed" /\ Truthy(req[r].path)
C26_DeleteNeverServerError ==
    [][\A r \in Req :
        Answers(r, "delete") => ret'.status \in {200, 404}]_vars

(***************************************************************************)
(* C25: an item request that carries a signed, unexpired token issued by   *)
(* either login route is accepted and runs as the account the token was    *)
(* issued to; a request whose token is unsigned or expired is answered 401 *)
(* and changes no item.                                                    *)
(***************************************************************************)
TokenOwner(token) ==
    IF token.route = "v1" THEN token.payload.user_id
    ELSE token.payload.auth_provider_id
C25_TokensAcceptedOr401 ==
    [][ret'.op = "create_as" =>
        IF ret'.token.signed /\ ret'.token.exp > ret'.at
        THEN /\ ret'.who.status = 200
             /\ ret'.who.user_id = TokenOwner(ret'.token)
        ELSE /\ ret'.status = 401
             /\ items' = items]_vars

(***************************************************************************)
(* C27: whenever the health route answers database 'ready', the manager it *)
(* read has a client; with a manager whose connection failed, or none, it  *)
(* answers 'starting'.                                                     *)
(***************************************************************************)
Connected(manager) == manager # NoDoc /\ manager.client # None
C27_ReadyMeansConnected ==
    ret.op = "health" =>
        IF Connected(ret.db_manager)
        THEN ret.body.status = "healthy" /\ ret.body.database = "ready"
        ELSE ret.body.status = "starting"

(***************************************************************************)
(* C28: a call made through get_gcs_service(b) works on bucket b: the      *)
(* service is bound to b, and a blob it saved exists in b.                 *)
(***************************************************************************)
C28_ServiceOfNamedBucket ==
    [][ret'.op = "service" =>
        /\ ret'.bucket = ret'.asked
        /\ (ret'.call = "save" /\ ret'.done /\ ret' # ret) =>
              <<ret'.asked, ret'.key>> \in buckets']_vars

====
